---------------------------- MODULE Spec2Model ----------------------------
(***************************************************************************)
(* A model of the LangGraph getting-started code of assistant-ui:          *)
(*   - lib/chatApi.ts            createClient, createThread, sendMessage   *)
(*   - app/MyRuntimeProvider.tsx the stream callback and its threadIdRef   *)
(*   - api/[...path]/route.ts    the proxy route (handleRequest, OPTIONS)  *)
(*                                                                         *)
(* Text is modelled as a sequence of tokens, an optional value (undefined, *)
(* null, an unset environment variable) as a sequence of length 0 or 1,    *)
(* and a request body as a sequence of bytes.                              *)
(***************************************************************************)
EXTENDS Naturals, Sequences, FiniteSets

VARIABLES
    \* ---- MyRuntimeProvider (one instance = one session) ----
    threadIdRef,    \* threadIdRef.current: <<>> (undefined) or <<thread_id>>
    calls,          \* the invocations of the stream callback, by start order
    backendLog,     \* the calls the SDK client issued and what came back
    nextThreadId,   \* the backend's next fresh thread_id
    \* ---- the proxy route (one invocation of a handler) ----
    pc,             \* where the handler of the current request stands
    req,            \* the incoming request (NextRequest)
    local,          \* the handler's locals: path, queryString, options, res
    fetchLog,       \* the fetch calls issued for the current request
    resp,           \* the response returned for it: <<>> or <<response>>
    thrown,         \* the exception caught by the try block, if any
    \* ---- both ----
    env             \* process.env, fixed when the process starts

streamVars == <<threadIdRef, calls, backendLog, nextThreadId>>
proxyVars  == <<pc, req, local, fetchLog, resp, thrown>>
vars       == <<threadIdRef, calls, backendLog, nextThreadId,
                pc, req, local, fetchLog, resp, thrown, env>>

\* ------------------------------------------------------------------------
\* Bounds of the model
\* ------------------------------------------------------------------------
MaxCalls == 3       \* stream calls of one session
MaxQuery == 2       \* '&'-separated segments of an incoming query string
MaxPathSegs == 2    \* path segments after /api/
MaxBodyLen == 3     \* bytes of an incoming request body

\* ------------------------------------------------------------------------
\* Generic helpers
\* ------------------------------------------------------------------------
SeqsUpTo(S, n) == UNION { [1..k -> S] : k \in 0..n }

Last(s) == s[Len(s)]

RECURSIVE Flatten(_)
Flatten(ss) == IF ss = <<>> THEN <<>> ELSE Head(ss) \o Flatten(Tail(ss))

\* ========================================================================
\* lib/chatApi.ts
\* ========================================================================
\* const apiUrl = process.env["NEXT_PUBLIC_LANGGRAPH_API_URL"] || "/api"
createClient(publicUrl) ==
    [apiUrl |-> IF publicUrl = <<>> \/ publicUrl[1] = "" THEN "/api"
                ELSE publicUrl[1]]

\* client.threads.create(): the request createThread issues
createThread(c, client) ==
    [op |-> "threads.create", call |-> c, apiUrl |-> client.apiUrl,
     tid |-> 0, messages |-> "", streamMode |-> "", error |-> ""]

\* What comes back from it: a thread with a fresh thread_id, or a failure
ThreadCreated(c, t) ==
    [op |-> "threads.create.ok", call |-> c, apiUrl |-> "",
     tid |-> t, messages |-> "", streamMode |-> "", error |-> ""]

ThreadCreateFailed(c, e) ==
    [op |-> "threads.create.error", call |-> c, apiUrl |-> "",
     tid |-> 0, messages |-> "", streamMode |-> "", error |-> e]

\* client.runs.stream(params.threadId, ASSISTANT_ID,
\*                    {input: {messages}, streamMode: "messages"})
sendMessage(c, client, threadId, messages) ==
    [op |-> "runs.stream", call |-> c, apiUrl |-> client.apiUrl,
     tid |-> threadId, messages |-> messages, streamMode |-> "messages",
     error |-> ""]

\* ========================================================================
\* app/MyRuntimeProvider.tsx
\* ========================================================================
Messages == {"m1", "m2"}
CreateErrors == {"network error", "HTTP 500"}

CallIds == 1..MaxCalls

IdleCall == [pc |-> "idle", cached |-> FALSE, messages |-> "",
             threadId |-> <<>>, error |-> <<>>]

\* A callback that asks for a new thread on every call
NeedsThread_Always(ref) == TRUE

\* if (!threadIdRef.current)
NeedsThread(ref) == ref = <<>>

\* The c-th call of the stream callback, up to its first await (or, with a
\* cached thread id, up to its return: nothing is awaited on that path).
StreamStart(c, messages) ==
    /\ calls[c].pc = "idle"
    /\ IF c = 1 THEN TRUE ELSE calls[c - 1].pc # "idle"
    /\ LET client == createClient(env.NEXT_PUBLIC_LANGGRAPH_API_URL) IN
       IF NeedsThread(threadIdRef)
       THEN /\ calls' = [calls EXCEPT ![c] =
                            [IdleCall EXCEPT !.pc = "awaitCreate",
                                             !.cached = threadIdRef # <<>>,
                                             !.messages = messages]]
            /\ backendLog' = Append(backendLog, createThread(c, client))
       ELSE /\ calls' = [calls EXCEPT ![c] =
                            [IdleCall EXCEPT !.pc = "done",
                                             !.cached = threadIdRef # <<>>,
                                             !.messages = messages,
                                             !.threadId = threadIdRef]]
            /\ backendLog' = Append(backendLog,
                    sendMessage(c, client, threadIdRef[1], messages))
    /\ UNCHANGED <<threadIdRef, nextThreadId, proxyVars, env>>

\* createThread() resolves: the continuation stores the id, reads it back
\* and calls sendMessage, all in one synchronous run.
CreateThreadResolve(c) ==
    /\ calls[c].pc = "awaitCreate"
    /\ LET client == createClient(env.NEXT_PUBLIC_LANGGRAPH_API_URL)
           thread_id == nextThreadId
           ref == <<thread_id>>     \* threadIdRef.current = thread_id
       IN /\ threadIdRef' = ref
          /\ calls' = [calls EXCEPT ![c].pc = "done", ![c].threadId = ref]
          /\ backendLog' = backendLog \o
                <<ThreadCreated(c, thread_id),
                  sendMessage(c, client, ref[1], calls[c].messages)>>
    /\ nextThreadId' = nextThreadId + 1
    /\ UNCHANGED <<proxyVars, env>>

\* A callback that swallows the failure and streams without a thread
CreateThreadReject_Swallowed(c, e) ==
    /\ calls[c].pc = "awaitCreate"
    /\ calls' = [calls EXCEPT ![c].pc = "done"]
    /\ backendLog' = backendLog \o
          <<ThreadCreateFailed(c, e),
            sendMessage(c, createClient(env.NEXT_PUBLIC_LANGGRAPH_API_URL),
                        0, calls[c].messages)>>
    /\ UNCHANGED <<threadIdRef, nextThreadId, proxyVars, env>>

\* createThread() rejects: the await throws, nothing catches it, and the
\* promise the stream callback returned rejects with the same error.
CreateThreadReject(c, e) ==
    /\ calls[c].pc = "awaitCreate"
    /\ calls' = [calls EXCEPT ![c].pc = "failed", ![c].error = <<e>>]
    /\ backendLog' = Append(backendLog, ThreadCreateFailed(c, e))
    /\ UNCHANGED <<threadIdRef, nextThreadId, proxyVars, env>>

\* The state after construction: useRef() holds undefined, no callback has
\* run, and the route is about to be invoked with one of the requests;
\* process.env is one of envs.
Init(envs, requests) ==
    /\ threadIdRef = <<>>
    /\ calls = [c \in CallIds |-> IdleCall]
    /\ backendLog = <<>>
    /\ nextThreadId = 1
    /\ pc = "idle"
    /\ req \in requests
    /\ local = [path |-> <<>>, queryString |-> <<>>,
                options |-> [method |-> "", headers |-> <<>>, body |-> <<>>],
                res |-> <<>>]
    /\ fetchLog = <<>>
    /\ resp = <<>>
    /\ thrown = <<>>
    /\ env \in envs

NextStream ==
    \/ \E c \in CallIds, m \in Messages : StreamStart(c, m)
    \/ \E c \in CallIds : CreateThreadResolve(c)
    \/ \E c \in CallIds, e \in CreateErrors : CreateThreadReject(c, e)

\* ========================================================================
\* api/[...path]/route.ts : text helpers
\* ========================================================================
\* String.prototype.replace(/^\/?api\//, ""): an optional leading "/", then
\* "api", then "/", at the start of the text only, removed once.
StripApiPrefix(pathname) ==
    IF Len(pathname) >= 3 /\ pathname[1] = "/" /\ pathname[2] = "api"
                          /\ pathname[3] = "/"
    THEN SubSeq(pathname, 4, Len(pathname))
    ELSE IF Len(pathname) >= 2 /\ pathname[1] = "api" /\ pathname[2] = "/"
    THEN SubSeq(pathname, 3, Len(pathname))
    ELSE pathname

\* Index of the first occurrence of token t in s, or 0
RECURSIVE IndexFrom(_, _, _)
IndexFrom(s, t, i) ==
    IF i > Len(s) THEN 0 ELSE IF s[i] = t THEN i ELSE IndexFrom(s, t, i + 1)

IndexOf(s, t) == IndexFrom(s, t, 1)

\* s split at every token t (the pieces may be empty)
RECURSIVE Split(_, _)
Split(s, t) ==
    LET i == IndexOf(s, t) IN
    IF i = 0 THEN <<s>>
    ELSE <<SubSeq(s, 1, i - 1)>> \o Split(SubSeq(s, i + 1, Len(s)), t)

\* application/x-www-form-urlencoded decoding of one token: "+" is a space,
\* a percent escape is the byte it names
FormDecode(tok) ==
    CASE tok = "+"   -> " "
      [] tok = "%20" -> " "
      [] tok = "%3D" -> "="
      [] OTHER       -> tok

\* ... and its serialisation: a space becomes "+", "=" is escaped
FormEncode(tok) ==
    CASE tok = " " -> "+"
      [] tok = "=" -> "%3D"
      [] OTHER     -> tok

FormDecodeAll(s) == [i \in 1..Len(s) |-> FormDecode(s[i])]

FormEncodeAll(s) == [i \in 1..Len(s) |-> FormEncode(s[i])]

\* new URLSearchParams(url.search): a leading "?" is dropped, the rest is
\* split at "&", empty pieces are skipped, each piece is split at its first
\* "=" into a name and a value, and both are decoded.
RECURSIVE ParsePieces(_)
ParsePieces(pieces) ==
    IF pieces = <<>> THEN <<>>
    ELSE LET p  == Head(pieces)
             eq == IndexOf(p, "=")
             nm == IF eq = 0 THEN p ELSE SubSeq(p, 1, eq - 1)
             vl == IF eq = 0 THEN <<>> ELSE SubSeq(p, eq + 1, Len(p))
         IN (IF p = <<>> THEN <<>>
             ELSE <<[name  |-> FormDecodeAll(nm),
                     value |-> FormDecodeAll(vl)]>>)
            \o ParsePieces(Tail(pieces))

URLSearchParams(search) ==
    LET raw == IF search # <<>> /\ search[1] = "?" THEN Tail(search)
               ELSE search
    IN IF raw = <<>> THEN <<>> ELSE ParsePieces(Split(raw, "&"))

\* searchParams.delete(name): every pair of that name goes
RECURSIVE ParamsDelete(_, _)
ParamsDelete(params, name) ==
    IF params = <<>> THEN <<>>
    ELSE (IF Head(params).name = name THEN <<>> ELSE <<Head(params)>>)
         \o ParamsDelete(Tail(params), name)

\* searchParams.toString(): name=value pairs joined by "&"
RECURSIVE ParamsToString(_)
ParamsToString(params) ==
    IF params = <<>> THEN <<>>
    ELSE FormEncodeAll(Head(params).name) \o <<"=">>
         \o FormEncodeAll(Head(params).value)
         \o (IF Tail(params) = <<>> THEN <<>>
             ELSE <<"&">> \o ParamsToString(Tail(params)))

\* A handler that forgets the second reserved parameter
DeleteReserved_OnlyPath(params) == ParamsDelete(params, <<"_path">>)

\* searchParams.delete("_path"); searchParams.delete("nxtP_path")
DeleteReserved(params) ==
    ParamsDelete(ParamsDelete(params, <<"_path">>), <<"nxtP_path">>)

\* const queryString = searchParams.toString()
\*   ? `?${searchParams.toString()}` : ""
QueryString(search) ==
    LET text == ParamsToString(DeleteReserved(URLSearchParams(search)))
    IN IF text # <<>> THEN <<"?">> \o text ELSE <<>>

\* `${process.env["LANGGRAPH_API_URL"]}`: an unset variable reads as the
\* text "undefined" inside a template literal
EnvText(v) == IF v = <<>> THEN "undefined" ELSE v[1]

\* `${process.env["LANGGRAPH_API_URL"]}/${path}${queryString}`
BackendUrl(apiUrl, path, queryString) ==
    <<EnvText(apiUrl), "/">> \o path \o queryString

\* ------------------------------------------------------------------------
\* Request bodies: req.text() decodes the bytes as UTF-8 into text, and
\* fetch() encodes a text body as UTF-8 again.
\* ------------------------------------------------------------------------
ReplacementChar == 65533    \* U+FFFD

\* The UTF-8 decoder of the Encoding standard, byte i onwards, with the
\* decoder's state: bytes needed and seen, the code point so far and the
\* bounds of the next continuation byte. An offending byte yields U+FFFD
\* and is looked at again as the start of a new sequence.
RECURSIVE Utf8Run(_, _, _, _, _, _, _)
Utf8Run(b, i, needed, seen, cp, lower, upper) ==
    IF i > Len(b)
    THEN (IF needed # 0 THEN <<ReplacementChar>> ELSE <<>>)
    ELSE LET x == b[i] IN
         IF needed = 0
         THEN IF x <= 127
              THEN <<x>> \o Utf8Run(b, i + 1, 0, 0, 0, 128, 191)
              ELSE IF x >= 194 /\ x <= 223
              THEN Utf8Run(b, i + 1, 1, 0, x % 32, 128, 191)
              ELSE IF x >= 224 /\ x <= 239
              THEN Utf8Run(b, i + 1, 2, 0, x % 16,
                           IF x = 224 THEN 160 ELSE 128,
                           IF x = 237 THEN 159 ELSE 191)
              ELSE IF x >= 240 /\ x <= 244
              THEN Utf8Run(b, i + 1, 3, 0, x % 8,
                           IF x = 240 THEN 144 ELSE 128,
                           IF x = 244 THEN 143 ELSE 191)
              ELSE <<ReplacementChar>> \o Utf8Run(b, i + 1, 0, 0, 0, 128, 191)
         ELSE IF x < lower \/ x > upper
              THEN <<ReplacementChar>> \o Utf8Run(b, i, 0, 0, 0, 128, 191)
              ELSE IF seen + 1 = needed
              THEN <<cp * 64 + (x % 64)>> \o Utf8Run(b, i + 1, 0, 0, 0, 128, 191)
              ELSE Utf8Run(b, i + 1, needed, seen + 1, cp * 64 + (x % 64),
                           128, 191)

\* "UTF-8 decode": a leading byte order mark EF BB BF is dropped first
Utf8Decode(bytes) ==
    IF Len(bytes) >= 3 /\ SubSeq(bytes, 1, 3) = <<239, 187, 191>>
    THEN Utf8Run(bytes, 4, 0, 0, 0, 128, 191)
    ELSE Utf8Run(bytes, 1, 0, 0, 0, 128, 191)

Utf8EncodeOne(cp) ==
    IF cp < 128 THEN <<cp>>
    ELSE IF cp < 2048 THEN <<192 + (cp \div 64), 128 + (cp % 64)>>
    ELSE IF cp < 65536
    THEN <<224 + (cp \div 4096), 128 + ((cp \div 64) % 64), 128 + (cp % 64)>>
    ELSE <<240 + (cp \div 262144), 128 + ((cp \div 4096) % 64),
           128 + ((cp \div 64) % 64), 128 + (cp % 64)>>

Utf8Encode(text) ==
    Flatten([i \in 1..Len(text) |-> Utf8EncodeOne(text[i])])

\* await req.text()
RequestText(body) == Utf8Decode(body)

\* ========================================================================
\* api/[...path]/route.ts : the handlers
\* ========================================================================
EmptyHeaders == [k \in {} |-> ""]

\* {...a, ...b}: the keys of both, b's value where both have the key
MergeHeaders(a, b) ==
    [k \in DOMAIN a \cup DOMAIN b |-> IF k \in DOMAIN b THEN b[k] ELSE a[k]]

getCorsHeaders ==
    [k \in {"Access-Control-Allow-Origin", "Access-Control-Allow-Methods",
            "Access-Control-Allow-Headers"} |->
        CASE k = "Access-Control-Allow-Origin"  -> "*"
          [] k = "Access-Control-Allow-Methods" ->
                 "GET, POST, PUT, PATCH, DELETE, OPTIONS"
          [] k = "Access-Control-Allow-Headers" -> "*"]

\* A handler without the || "" fallback
ApiKeyHeaders_NoFallback(key) == [k \in {"x-api-key"} |-> EnvText(key)]

\* "x-api-key": process.env["LANGCHAIN_API_KEY"] || ""
ApiKeyHeaders(key) ==
    [k \in {"x-api-key"} |-> IF key = <<>> \/ key[1] = "" THEN "" ELSE key[1]]

\* ["POST", "PUT", "PATCH"].includes(method)
HasBody(method) == method \in {"POST", "PUT", "PATCH"}

\* fetch(url, options): the request that goes out. A text body goes out
\* as its UTF-8 encoding; without options.body there is no body.
Fetch(url, options) ==
    [url |-> url, method |-> options.method, headers |-> options.headers,
     body |-> IF options.body = <<>> THEN <<>>
              ELSE <<Utf8Encode(options.body[1])>>]

\* ...res.headers inside an object literal: a spread copies the own
\* enumerable properties of the Headers object. Whether the header fields
\* are such properties depends on the runtime's Headers class, so both
\* outcomes are kept: no field copied, or every field copied.
SpreadHeaders(h) == {EmptyHeaders, h}

\* A handler that spreads the backend's headers last
ForwardResponse_CorsFirst(res, spread) ==
    [status |-> res.status, statusText |-> res.statusText,
     body |-> res.body,
     headers |-> MergeHeaders(getCorsHeaders, spread)]

\* new NextResponse(res.body, {status, statusText, headers: {...}})
ForwardResponse(res, spread) ==
    [status |-> res.status, statusText |-> res.statusText,
     body |-> res.body,
     headers |-> MergeHeaders(spread, getCorsHeaders)]

\* A handler that answers every exception with 500
ErrorStatus_Always500(e) == 500

\* e.status ?? 500
ErrorStatus(e) == IF e.status = <<>> THEN 500 ELSE e.status[1]

\* JSON.stringify({ error: e.message })
JsonError(message) == <<"{", "\"error\"", ":", message, "}">>

JsonHeaders == [k \in {"content-type"} |-> "application/json"]

\* NextResponse.json({ error: e.message }, { status: e.status ?? 500 })
CatchResponse(e) ==
    [status |-> ErrorStatus(e), statusText |-> "",
     body |-> <<JsonError(e.message)>>, headers |-> JsonHeaders]

\* handleRequest(req, method), up to its first await. For a method without
\* a body that is the fetch; otherwise it is req.text().
handleRequest(r, method) ==
    /\ pc = "idle"
    /\ LET path == StripApiPrefix(r.pathname)
           queryString == QueryString(r.search)
           options == [method |-> method,
                       headers |-> ApiKeyHeaders(env.LANGCHAIN_API_KEY),
                       body |-> <<>>]
       IN /\ local' = [path |-> path, queryString |-> queryString,
                       options |-> options, res |-> <<>>]
          /\ IF HasBody(method)
             THEN /\ pc' = "readBody"
                  /\ fetchLog' = <<>>
             ELSE /\ pc' = "fetching"
                  /\ fetchLog' = <<Fetch(BackendUrl(env.LANGGRAPH_API_URL,
                                                    path, queryString),
                                         options)>>
    /\ UNCHANGED <<req, resp, thrown, streamVars, env>>

\* options.body = await req.text(), then the fetch
ReadBodyResolve ==
    /\ pc = "readBody"
    /\ LET options == [local.options EXCEPT
                          !.body = <<RequestText(req.body)>>]
       IN /\ local' = [local EXCEPT !.options = options]
          /\ fetchLog' = <<Fetch(BackendUrl(env.LANGGRAPH_API_URL,
                                            local.path, local.queryString),
                                 options)>>
    /\ pc' = "fetching"
    /\ UNCHANGED <<req, resp, thrown, streamVars, env>>

\* await req.text() throws: caught
ReadBodyReject(e) ==
    /\ pc = "readBody"
    /\ thrown' = <<e>>
    /\ resp' = <<CatchResponse(e)>>
    /\ pc' = "responded"
    /\ UNCHANGED <<req, local, fetchLog, streamVars, env>>

\* The backend answers (only a fetch of a valid URL reaches it)
FetchResolve(res, spread) ==
    /\ pc = "fetching"
    /\ env.LANGGRAPH_API_URL # <<>>
    /\ spread \in SpreadHeaders(res.headers)
    /\ local' = [local EXCEPT !.res = <<res>>]
    /\ resp' = <<ForwardResponse(res, spread)>>
    /\ pc' = "responded"
    /\ UNCHANGED <<req, fetchLog, thrown, streamVars, env>>

\* await fetch(...) throws (no connection, an invalid URL): caught
FetchReject(e) ==
    /\ pc = "fetching"
    /\ thrown' = <<e>>
    /\ resp' = <<CatchResponse(e)>>
    /\ pc' = "responded"
    /\ UNCHANGED <<req, local, fetchLog, streamVars, env>>

GET(r)    == r.method = "GET"    /\ handleRequest(r, "GET")
POST(r)   == r.method = "POST"   /\ handleRequest(r, "POST")
PUT(r)    == r.method = "PUT"    /\ handleRequest(r, "PUT")
PATCH(r)  == r.method = "PATCH"  /\ handleRequest(r, "PATCH")
DELETE(r) == r.method = "DELETE" /\ handleRequest(r, "DELETE")

\* A route whose OPTIONS is forwarded like the other methods
OPTIONS_Forwarded(r) == r.method = "OPTIONS" /\ handleRequest(r, "OPTIONS")

\* new NextResponse(null, {status: 204, headers: {...getCorsHeaders()}})
OPTIONS(r) ==
    /\ r.method = "OPTIONS"
    /\ pc = "idle"
    /\ resp' = <<[status |-> 204, statusText |-> "", body |-> <<>>,
                  headers |-> MergeHeaders(EmptyHeaders, getCorsHeaders)]>>
    /\ pc' = "responded"
    /\ UNCHANGED <<req, local, fetchLog, thrown, streamVars, env>>

\* ------------------------------------------------------------------------
\* The requests, backend answers and exceptions explored
\* ------------------------------------------------------------------------
Methods == {"GET", "POST", "PUT", "PATCH", "DELETE", "OPTIONS"}

PathSegs == {"api", "threads"}

\* req.nextUrl.pathname of a request routed to /api/[...path]
Pathnames(n) ==
    { <<"/", "api">> \o Flatten([i \in 1..Len(segs) |-> <<"/", segs[i]>>]) :
        segs \in SeqsUpTo(PathSegs, n) \ {<<>>} }

\* The pieces between the "&" of a raw query string
RawSegments ==
    {<<>>, <<"q">>}
    \cup { <<n, "=", v>> : n \in {"q", "_path", "nxtP_path"},
                           v \in {"a", "%20"} }

RECURSIVE Join(_, _)
Join(ss, sep) ==
    IF ss = <<>> THEN <<>>
    ELSE IF Len(ss) = 1 THEN Head(ss)
    ELSE Head(ss) \o <<sep>> \o Join(Tail(ss), sep)

\* url.search: "" for an empty query, else "?" and the query
Searches(n) ==
    { LET q == Join(segs, "&") IN IF q = <<>> THEN <<>> ELSE <<"?">> \o q :
        segs \in SeqsUpTo(RawSegments, n) }

\* 'A', the two bytes of U+00E9, the three bytes of the byte order mark,
\* and a byte that no UTF-8 text contains
BodyBytes == {65, 195, 169, 239, 187, 191, 255}

Bodies(n) == SeqsUpTo(BodyBytes, n)

Origins == {<<>>, <<"https://app.example">>}

Requests(paths, searches, bodies, origins) ==
    [method : Methods, pathname : paths, search : searches, body : bodies,
     origin : origins]

BackendResponses ==
    [status : {200, 404}, statusText : {"from backend"},
     body : {<<<<"payload">>>>},
     headers : {[k \in {"content-type"} |-> "text/event-stream"],
                [k \in {"content-type", "Access-Control-Allow-Origin"} |->
                    IF k = "content-type" THEN "application/json"
                    ELSE "https://backend.example"]}]

Exceptions == [message : {"fetch failed"}, status : {<<>>, <<503>>}]

ProxyEnvs ==
    [NEXT_PUBLIC_LANGGRAPH_API_URL : {<<>>},
     LANGCHAIN_API_KEY : {<<>>, <<"">>, <<"lsv2_secret">>},
     LANGGRAPH_API_URL : {<<>>, <<"https://lg.example">>}]

StreamEnvs ==
    [NEXT_PUBLIC_LANGGRAPH_API_URL : {<<>>, <<"https://lg.example">>},
     LANGCHAIN_API_KEY : {<<>>},
     LANGGRAPH_API_URL : {<<>>}]

NextRoute ==
    \/ GET(req)
    \/ POST(req)
    \/ PUT(req)
    \/ PATCH(req)
    \/ DELETE(req)
    \/ OPTIONS(req)
    \/ ReadBodyResolve
    \/ \E e \in Exceptions : ReadBodyReject(e)
    \/ \E res \in BackendResponses :
          \E spread \in SpreadHeaders(res.headers) :
             FetchResolve(res, spread)
    \/ \E e \in Exceptions : FetchReject(e)

\* ------------------------------------------------------------------------
\* Specifications
\* ------------------------------------------------------------------------
\* One session of MyRuntimeProvider; the route is not invoked meanwhile
\* and req holds a request that stays unhandled.
UnhandledRequests ==
    [method : {"OPTIONS"}, pathname : {<<"/", "api", "/", "threads">>},
     search : {<<>>}, body : {<<>>}, origin : {<<>>}]

SpecStream ==
    /\ Init(StreamEnvs, UnhandledRequests)
    /\ [][NextStream]_vars

\* The proxy route: every method, outcome and environment
ProxyRequests ==
    Requests({<<"/", "api", "/", "threads">>,
              <<"/", "api", "/", "threads", "/", "api">>},
             {<<>>, <<"?", "q", "=", "a">>,
              <<"?", "_path", "=", "a", "&", "q", "=", "%20">>},
             {<<>>, <<65>>, <<195, 169>>, <<255>>},
             Origins)

SpecProxy ==
    /\ Init(ProxyEnvs, ProxyRequests)
    /\ [][NextRoute]_vars

\* The proxy route: the URLs it forwards to
UrlRequests ==
    Requests(Pathnames(MaxPathSegs), Searches(MaxQuery), {<<>>}, {<<>>})

UrlEnvs == { e \in ProxyEnvs : e.LANGCHAIN_API_KEY = <<"lsv2_secret">> }

SpecUrl ==
    /\ Init(UrlEnvs, UrlRequests)
    /\ [][NextRoute]_vars

\* The proxy route: the bodies it forwards
BodyRequests ==
    Requests({<<"/", "api", "/", "threads">>}, {<<>>}, Bodies(MaxBodyLen),
             {<<>>})

BodyEnvs == { e \in UrlEnvs : e.LANGGRAPH_API_URL # <<>> }

SpecBody ==
    /\ Init(BodyEnvs, BodyRequests)
    /\ [][NextRoute]_vars

Spec == SpecProxy

\* ========================================================================
\* Properties of a session (SpecStream)
\* ========================================================================
\* The positions of call c's entries of kind op in the backend log
Entries(c, op) ==
    { i \in 1..Len(backendLog) :
        backendLog[i].call = c /\ backendLog[i].op = op }

\* C1: within one session the thread identifier, once stored in
\* threadIdRef.current, is never overwritten with a different value, and
\* every later runs.stream call uses that same identifier.
C1_ThreadIdNeverOverwritten ==
    [][threadIdRef # <<>> =>
          /\ threadIdRef' = threadIdRef
          /\ \A i \in (Len(backendLog) + 1)..Len(backendLog') :
                backendLog'[i].op = "runs.stream" =>
                    backendLog'[i].tid = threadIdRef[1]]_vars

\* C2: a stream call that starts with no cached thread identifier issues
\* exactly one createThread call; its runs.stream call is issued only after
\* that createThread has returned, exactly once, with the thread_id it
\* returned. A stream call that starts with a cached identifier issues no
\* createThread call (and streams once, on the cached identifier).
C2_OneCreateThenOneStream ==
    \A c \in CallIds :
        calls[c].pc # "idle" =>
            IF calls[c].cached
            THEN /\ Entries(c, "threads.create") = {}
                 /\ Cardinality(Entries(c, "runs.stream")) = 1
            ELSE /\ Cardinality(Entries(c, "threads.create")) = 1
                 /\ Cardinality(Entries(c, "threads.create.ok")) <= 1
                 /\ Cardinality(Entries(c, "runs.stream")) <= 1
                 /\ \A i \in Entries(c, "threads.create.ok") :
                       /\ \E k \in Entries(c, "threads.create") : k < i
                       /\ \E j \in Entries(c, "runs.stream") :
                             i < j /\ backendLog[j].tid = backendLog[i].tid
                 /\ \A j \in Entries(c, "runs.stream") :
                       \E i \in Entries(c, "threads.create.ok") :
                          i < j /\ backendLog[j].tid = backendLog[i].tid

\* Two calls have returned: one started without a cached identifier and
\* created its thread, a later one started with the cached identifier.
C2_Witness ==
    \E c, d \in CallIds :
        /\ calls[c].pc = "done" /\ ~calls[c].cached
        /\ calls[d].pc = "done" /\ calls[d].cached
        /\ calls[d].threadId = calls[c].threadId

\* C10: when createThread fails during a stream call that started with no
\* cached identifier, the stream callback rejects with that same error,
\* the call issues no runs.stream and no second createThread (now or
\* later), the failure leaves threadIdRef.current as it was (unset stays
\* unset), and a stream call that starts while it is unset asks for a
\* thread again.
C10_CreateFailurePropagates ==
    /\ [](\A c \in CallIds :
            \A i \in Entries(c, "threads.create.error") :
               /\ calls[c].pc = "failed"
               /\ ~calls[c].cached
               /\ calls[c].error = <<backendLog[i].error>>
               /\ Entries(c, "runs.stream") = {}
               /\ Cardinality(Entries(c, "threads.create")) = 1)
    /\ [][\A c \in CallIds :
            /\ (calls[c].pc = "awaitCreate" /\ calls'[c].pc = "failed")
                  => threadIdRef' = threadIdRef
            /\ (calls[c].pc = "idle" /\ calls'[c].pc # "idle"
                                     /\ threadIdRef = <<>>)
                  => /\ calls'[c].pc = "awaitCreate"
                     /\ Last(backendLog').op = "threads.create"
                     /\ Last(backendLog').call = c]_vars

\* The first call failed, the reference is still unset, and the second
\* call, started after the failure, waits for its own createThread.
C10_Witness ==
    /\ calls[1].pc = "failed"
    /\ threadIdRef = <<>>
    /\ calls[2].pc = "awaitCreate"
    /\ \E i \in Entries(1, "threads.create.error") :
          \E j \in Entries(2, "threads.create") : i < j

\* ========================================================================
\* Properties of the proxy route (SpecProxy, SpecUrl, SpecBody)
\* ========================================================================
\* The three CORS headers hold their fixed values in h
HasCorsHeaders(h) ==
    /\ {"Access-Control-Allow-Origin", "Access-Control-Allow-Methods",
        "Access-Control-Allow-Headers"} \subseteq DOMAIN h
    /\ h["Access-Control-Allow-Origin"] = "*"
    /\ h["Access-Control-Allow-Methods"] =
          "GET, POST, PUT, PATCH, DELETE, OPTIONS"
    /\ h["Access-Control-Allow-Headers"] = "*"

\* C3: every response of the route, on the forwarding path, the OPTIONS
\* path and the caught-exception path, carries the three CORS headers.
C3_EveryResponseHasCors ==
    resp # <<>> => HasCorsHeaders(resp[1].headers)

\* C4: an OPTIONS request is answered with status 204, no body and exactly
\* the three CORS headers, and no fetch is ever issued for it, whatever its
\* path, query or headers.
C4_OptionsShortCircuit ==
    req.method = "OPTIONS" =>
        /\ fetchLog = <<>>
        /\ thrown = <<>>
        /\ pc \in {"idle", "responded"}
        /\ pc = "responded" =>
              /\ Len(resp) = 1
              /\ resp[1].status = 204
              /\ resp[1].body = <<>>
              /\ HasCorsHeaders(resp[1].headers)
              /\ Cardinality(DOMAIN resp[1].headers) = 3

\* An OPTIONS request with a query and an Origin header has been answered.
C4_Witness ==
    /\ req.method = "OPTIONS"
    /\ req.search # <<>>
    /\ req.origin # <<>>
    /\ pc = "responded"
    /\ resp # <<>>

NotReserved(p) == p.name \notin {<<"_path">>, <<"nxtP_path">>}

\* C5: for GET/POST/PUT/PATCH/DELETE the URL fetched is LANGGRAPH_API_URL,
\* "/", the incoming pathname without its leading "/api/", and the query
\* string; the query string holds every incoming parameter except _path and
\* nxtP_path, in order, and there is no "?" when no parameter remains.
C5_ForwardedUrl ==
    \A i \in 1..Len(fetchLog) :
        LET url   == fetchLog[i].url
            q     == IndexOf(url, "?")
            front == IF q = 0 THEN url ELSE SubSeq(url, 1, q - 1)
            query == IF q = 0 THEN <<>> ELSE SubSeq(url, q + 1, Len(url))
            kept  == SelectSeq(URLSearchParams(req.search), NotReserved)
            base  == IF env.LANGGRAPH_API_URL = <<>> THEN "undefined"
                     ELSE env.LANGGRAPH_API_URL[1]
        IN /\ req.method \in {"GET", "POST", "PUT", "PATCH", "DELETE"}
           /\ SubSeq(req.pathname, 1, 3) = <<"/", "api", "/">>
           /\ front = <<base, "/">> \o SubSeq(req.pathname, 4,
                                              Len(req.pathname))
           /\ URLSearchParams(query) = kept
           /\ (kept = <<>>) <=> (q = 0)
           /\ \A k \in 1..Len(url) : url[k] \notin {"_path", "nxtP_path"}

\* A request whose query holds a reserved parameter and one that stays,
\* with an escaped space, has been forwarded under a nested path.
C5_Witness ==
    /\ fetchLog # <<>>
    /\ req.search = <<"?", "_path", "=", "a", "&", "q", "=", "%20">>
    /\ req.pathname = <<"/", "api", "/", "api", "/", "threads">>
    /\ env.LANGGRAPH_API_URL # <<>>

\* C6: when a step inside the try block throws, the handler still returns
\* a response: the JSON body {"error": <message of the exception>} with
\* the exception's status if it has one and 500 otherwise.
C6_ErrorEnvelope ==
    /\ thrown # <<>> =>
          /\ pc = "responded"
          /\ Len(resp) = 1
          /\ resp[1].body = <<(<<"{", "\"error\"", ":">>
                               \o <<thrown[1].message>> \o <<"}">>)>>
          /\ resp[1].headers["content-type"] = "application/json"
          /\ resp[1].status = IF thrown[1].status = <<>> THEN 500
                              ELSE thrown[1].status[1]
    /\ pc = "responded" => Len(resp) = 1

\* The fetch threw an exception that carries a status.
C6_Witness ==
    /\ thrown # <<>>
    /\ thrown[1].status = <<503>>
    /\ fetchLog # <<>>
    /\ resp # <<>>

\* The text v occurs in response r: in a header, the status text or the body
OccursIn(v, r) ==
    \/ \E k \in DOMAIN r.headers : r.headers[k] = v
    \/ r.statusText = v
    \/ \E b \in 1..Len(r.body) :
          \E t \in 1..Len(r.body[b]) : r.body[b][t] = v

\* C7: every outbound request of a GET/POST/PUT/PATCH/DELETE call carries
\* x-api-key: the value of LANGCHAIN_API_KEY when it is set, the empty text
\* when it is not; one such request goes out per call; and the response has
\* no x-api-key header and the key's value nowhere in it.
C7_ApiKeyHeader ==
    /\ \A i \in 1..Len(fetchLog) :
          /\ "x-api-key" \in DOMAIN fetchLog[i].headers
          /\ fetchLog[i].headers["x-api-key"] =
                IF env.LANGCHAIN_API_KEY = <<>> THEN ""
                ELSE env.LANGCHAIN_API_KEY[1]
    /\ Len(fetchLog) <= 1
    /\ (pc = "fetching" \/ (pc = "responded" /\ local.res # <<>>))
          => Len(fetchLog) = 1
    /\ \A i \in 1..Len(resp) :
          /\ "x-api-key" \notin DOMAIN resp[i].headers
          /\ (env.LANGCHAIN_API_KEY \notin {<<>>, <<"">>})
                => ~OccursIn(env.LANGCHAIN_API_KEY[1], resp[i])

\* With the key set, a request went out and its answer came back.
C7_Witness ==
    /\ env.LANGCHAIN_API_KEY = <<"lsv2_secret">>
    /\ Len(fetchLog) = 1
    /\ local.res # <<>>
    /\ resp # <<>>

\* C8: for POST, PUT and PATCH the body of the outbound request is the
\* incoming request body, byte for byte; for GET and DELETE the outbound
\* request has no body.
C8_BodyForwardedUnmodified ==
    \A i \in 1..Len(fetchLog) :
        IF req.method \in {"POST", "PUT", "PATCH"}
        THEN fetchLog[i].body = <<req.body>>
        ELSE fetchLog[i].body = <<>>

\* C9: when the fetch completes, the response has the backend response's
\* body, status and status text, whatever the status, it is not the error
\* envelope, and the three CORS headers hold the proxy's fixed values even
\* if the backend set them.
C9_BackendResponseMirrored ==
    local.res # <<>> =>
        /\ pc = "responded"
        /\ thrown = <<>>
        /\ Len(resp) = 1
        /\ resp[1].status = local.res[1].status
        /\ resp[1].statusText = local.res[1].statusText
        /\ resp[1].body = local.res[1].body
        /\ HasCorsHeaders(resp[1].headers)

\* The backend answered 404 with its own Access-Control-Allow-Origin, and
\* its headers were copied into the response.
C9_Witness ==
    /\ local.res # <<>>
    /\ local.res[1].status = 404
    /\ "Access-Control-Allow-Origin" \in DOMAIN local.res[1].headers
    /\ resp # <<>>
    /\ "content-type" \in DOMAIN resp[1].headers

=============================================================================
